---- MODULE Spec2Model ----
(***************************************************************************)
(* A model of the brainduck interpreter (src/src/brainduck.c).             *)
(*                                                                         *)
(* The program source is a sequence of bytes 0..255; the FILE position is  *)
(* the number `cursor` of bytes before it.  `char` is the signed 8-bit     *)
(* type of the builds on which the interpreter runs at all (with an        *)
(* unsigned char no read loop of the source ever sees EOF), so a cell and  *)
(* every `char c = freadc(file)` hold a value in -128..127.                *)
(* `unsigned int` is held as the 32-bit two's complement integer with the  *)
(* same bit pattern (UINT_MAX is -1), since the model checker's integers   *)
(* are 32 bits wide; ++, -- and == act on the bit pattern.                 *)
(***************************************************************************)
EXTENDS Integers, Sequences, FiniteSets, TLC

VARIABLES src, stdin, inpos, cursor, stack, stackptr, depth, current_depth,
          fm, pc, err, where_err, out, scan_start, first, trace

vars == <<src, stdin, inpos, cursor, stack, stackptr, depth, current_depth,
          fm, pc, err, where_err, out, scan_start, first, trace>>

(***************************************************************************)
(* Program constants.                                                      *)
(***************************************************************************)
ERR_OK == 0
ERR_UNKNOWN_CHAR == 1
ERR_MATCHING_BRACKET == 2
ERR_BOUNDS == 3

EOF == -1

GT == 62
LT == 60
PLUS == 43
MINUS == 45
DOT == 46
COMMA == 44
LBRACKET == 91
RBRACKET == 93
LPAREN == 40
RPAREN == 41
HASH == 35
NL == 10
NUL == 0
SPACE == 32
CR == 13
TAB == 9

(***************************************************************************)
(* Bounds of the model.                                                    *)
(***************************************************************************)
\* The tape capacity, scaled down from the 1000 cells of the program so
\* that both ends of the tape are within reach of a short program.
STACK_SIZE == 3
\* Longest program over the arithmetic alphabet + - > <.
MaxArithLen == 5
\* Longest program over the loop and comment alphabet.
MaxLoopLen == 5
\* Longest program over every byte class the dispatcher tells apart.
MaxAnyLen == 2
\* Most bytes written to stdout in one run.
MaxOut == 3
\* Most offsets dispatched in a run whose dispatches are recorded.
MaxTrace == 16
\* Furthest a scan's local nesting counter is followed above its seed.
MaxNest == 4
\* Furthest the global depth counter is followed from 0, up or (wrapped) down.
MaxDepth == 4

(***************************************************************************)
(* C arithmetic.                                                           *)
(***************************************************************************)
\* Conversion of an int in -1..255 to char (signed, 8 bits).
ToChar(i) == IF i > 127 THEN i - 256 ELSE i

\* Conversion of a char to unsigned char (the byte putc writes).
ToByte(v) == IF v < 0 THEN v + 256 ELSE v

\* A ++ that stops at the byte 255 (-1 as a char) instead of wrapping to 0.
IncCharSat(v) == IF v = -1 THEN -1 ELSE IF v = 127 THEN -128 ELSE v + 1

\* ++ on a char lvalue.
IncChar(v) == IF v = 127 THEN -128 ELSE v + 1

\* -- on a char lvalue.
DecChar(v) == IF v = -128 THEN 127 ELSE v - 1

\* ++ on an unsigned int.
UIntInc(d) == IF d = 2147483647 THEN -2147483647 - 1 ELSE d + 1

\* -- on an unsigned int (0 wraps to UINT_MAX, held as -1).
UIntDec(d) == IF d = -2147483647 - 1 THEN 2147483647 ELSE d - 1

(***************************************************************************)
(* The source cursor.                                                      *)
(***************************************************************************)
\* fseek(file, n, SEEK_CUR): fails, leaving the position, when the result
\* would be negative; a position past the end is allowed.
fseek_cur(pos, n) == IF pos + n < 0 THEN pos ELSE pos + n

\* freadc: fgetc, then fseek(file, -1, SEEK_CUR).  On a byte the two cancel.
\* At the end fgetc returns EOF without moving, and the fseek still moves
\* the position one byte back.
freadc(s, pos) ==
    IF pos < Len(s)
    THEN [c |-> s[pos + 1], pos |-> pos]
    ELSE [c |-> EOF, pos |-> fseek_cur(pos, -1)]

fmove(pos, n) == fseek_cur(pos, n)

fmoveback(pos, n) == fseek_cur(pos, -(IF n < 0 THEN -n ELSE n))

\* ffindc: the position the loop stops at, on the byte c or after the EOF
\* read (ret is an int: a byte 255 is not EOF here).
RECURSIVE ffindc(_, _, _)
ffindc(s, pos, c) ==
    LET r == freadc(s, pos) IN
    IF r.c = EOF THEN r.pos
    ELSE IF r.c = c THEN r.pos
    ELSE ffindc(s, fmove(r.pos, 1), c)


(***************************************************************************)
(* The preflight validator.                                                *)
(***************************************************************************)
\* The loop of check_matching_brackets from position pos with counter
\* level: c is a char, so the loop ends at the end of the source and also
\* on a byte 255, which converts to (char)-1 == EOF.  where is the number
\* of times (*where)++ ran.
RECURSIVE check_loop(_, _, _, _, _)
check_loop(s, open, close, pos, level) ==
    LET r == freadc(s, pos)
        c == ToChar(r.c)
    IN  IF c = EOF THEN [level |-> level, where |-> pos]
        ELSE check_loop(s, open, close, fmove(r.pos, 1),
                        IF c = open THEN level + 1
                        ELSE IF c = close THEN level - 1
                        ELSE level)

\* A validator that treats a # line as opaque, which the program does not.
RECURSIVE check_loop_skip_hash(_, _, _, _, _)
check_loop_skip_hash(s, open, close, pos, level) ==
    LET r == freadc(s, pos)
        c == ToChar(r.c)
    IN  IF c = EOF THEN [level |-> level, where |-> pos]
        ELSE IF c = HASH
        THEN LET q == ffindc(s, r.pos, NL) IN
             IF q < Len(s) /\ s[q + 1] = NL
             THEN check_loop_skip_hash(s, open, close, fmove(q, 1), level)
             ELSE [level |-> level, where |-> Len(s)]
        ELSE check_loop_skip_hash(s, open, close, fmove(r.pos, 1),
                        IF c = open THEN level + 1
                        ELSE IF c = close THEN level - 1
                        ELSE level)

check_matching_brackets_skip_hash(s, open, close) ==
    LET r == check_loop_skip_hash(s, open, close, 0, 0) IN
    [err |-> IF r.level # 0 THEN ERR_MATCHING_BRACKET ELSE ERR_OK,
     where |-> r.where]

\* check_matching_brackets on a file at position 0: the error code and the
\* amount added to *where.  The file is left at position 0.
check_matching_brackets(s, open, close) ==
    LET r == check_loop(s, open, close, 0, 0) IN
    [err |-> IF r.level # 0 THEN ERR_MATCHING_BRACKET ELSE ERR_OK,
     where |-> r.where]

(***************************************************************************)
(* The programs and inputs of the model.                                   *)
(***************************************************************************)
SeqsUpTo(A, n) == UNION {[1..k -> A] : k \in 0..n}

ArithAlphabet == {PLUS, MINUS, GT, LT}

LoopAlphabet == {PLUS, MINUS, LBRACKET, RBRACKET, LPAREN, RPAREN, HASH, NL, 255}

\* Every command, every ignored byte, and the bytes 120 ('x'), 200 and 255
\* that are neither.
AnyAlphabet == {GT, LT, PLUS, MINUS, DOT, COMMA, LBRACKET, RBRACKET, LPAREN,
                RPAREN, HASH, NL, NUL, SPACE, CR, TAB, 120, 200, 255}

\* Longer programs: nested loops, the echo program, comments in loops, a
\* byte 255 between two comments of a loop body.
Samples ==
    { <<PLUS, PLUS, PLUS, LBRACKET, LBRACKET, MINUS, RBRACKET, RBRACKET>>,
      <<COMMA, DOT>>,
      <<PLUS, LBRACKET, GT, PLUS, LT, MINUS, RBRACKET, GT, DOT>>,
      <<PLUS, LBRACKET, LPAREN, LBRACKET, RBRACKET, RPAREN, MINUS, RBRACKET>>,
      <<PLUS, LBRACKET, HASH, MINUS, NL, MINUS, RBRACKET>>,
      <<LBRACKET, HASH, LPAREN, NL, RBRACKET, PLUS, HASH, RPAREN, NL>>,
      <<LBRACKET, LPAREN, LPAREN, PLUS, RPAREN, RPAREN, RBRACKET, PLUS>>,
      <<LBRACKET, LPAREN, RBRACKET, RPAREN, 255, LPAREN, LBRACKET, RPAREN, RBRACKET>>,
      <<LBRACKET, LPAREN, RBRACKET, RPAREN, 255, PLUS, LPAREN, LBRACKET, RPAREN,
        RBRACKET>> }

Programs ==
    SeqsUpTo(ArithAlphabet, MaxArithLen) \cup SeqsUpTo(LoopAlphabet, MaxLoopLen)
        \cup SeqsUpTo(AnyAlphabet, MaxAnyLen) \cup Samples

\* stdin as the first bytes of its lines: no input, or the line "A".
Inputs == {<<>>, <<65>>}

Range(s) == {s[i] : i \in 1..Len(s)}

NoCall == [c1 |-> 0, c2 |-> 0, direction |-> 0, depth |-> 0, ret |-> "none"]

Init ==
    /\ src \in Programs
    /\ stdin \in (IF COMMA \in Range(src) THEN Inputs ELSE {<<>>})
    /\ inpos = 0
    /\ cursor = 0
    /\ stack = [i \in 0..(STACK_SIZE - 1) |-> 0]
    /\ stackptr = 0
    /\ depth = 0
    /\ current_depth = 0
    /\ fm = NoCall
    /\ pc = "readfile"
    /\ err = ERR_OK
    /\ where_err = 0
    /\ out = <<>>
    /\ scan_start = -1
    /\ first = <<>>
    /\ trace = <<>>

(***************************************************************************)
(* readfile: the two validation passes, then the interpreter or the exit.  *)
(***************************************************************************)
readfile ==
    /\ pc = "readfile"
    /\ LET b == check_matching_brackets(src, LBRACKET, RBRACKET)
           p == check_matching_brackets(src, LPAREN, RPAREN)
       IN  IF b.err # ERR_OK
           THEN /\ where_err' = where_err + b.where
                /\ err' = ERR_MATCHING_BRACKET
                /\ pc' = "exit"
           ELSE /\ where_err' = where_err + b.where + p.where
                /\ err' = (IF p.err # ERR_OK THEN ERR_MATCHING_BRACKET ELSE ERR_OK)
                /\ pc' = (IF p.err # ERR_OK THEN "exit" ELSE "interpret_file")
    /\ cursor' = 0
    /\ UNCHANGED <<src, stdin, inpos, stack, stackptr, depth, current_depth,
                   fm, out, scan_start, first>>


(***************************************************************************)
(* interpret_file: one iteration of its loop.  A scan that a command       *)
(* starts runs in the actions below and comes back here.                   *)
(***************************************************************************)
\* return e from interpret_file, the position at pos and stackptr at sp.
Return(e, pos, sp) ==
    /\ pc' = "exit"
    /\ err' = e
    /\ cursor' = pos
    /\ stackptr' = sp
    /\ UNCHANGED <<src, stdin, inpos, stack, depth, current_depth, fm,
                   where_err, out, scan_start, first>>

\* input_byte: the first byte of the next line of stdin, 0 when there is none.
input_byte == IF inpos < Len(stdin) THEN ToChar(stdin[inpos + 1]) ELSE 0

\* The switch with - written as --stackptr: it moves the position instead
\* of decrementing the cell.
Command_minus_moves(c, pos) ==
    CASE c = GT ->
            /\ stackptr' = stackptr + 1
            /\ cursor' = fmove(pos, 1)
            /\ UNCHANGED <<stack, depth, current_depth, fm, pc, out, inpos, scan_start>>
      [] c = LT ->
            /\ stackptr' = stackptr - 1
            /\ cursor' = fmove(pos, 1)
            /\ UNCHANGED <<stack, depth, current_depth, fm, pc, out, inpos, scan_start>>
      [] c = PLUS ->
            /\ stack' = [stack EXCEPT ![stackptr] = IncChar(@)]
            /\ cursor' = fmove(pos, 1)
            /\ UNCHANGED <<stackptr, depth, current_depth, fm, pc, out, inpos, scan_start>>
      [] c = MINUS ->
            /\ stackptr' = stackptr - 1
            /\ cursor' = fmove(pos, 1)
            /\ UNCHANGED <<stack, depth, current_depth, fm, pc, out, inpos, scan_start>>
      [] c = DOT ->
            /\ Len(out) < MaxOut
            /\ out' = Append(out, ToByte(stack[stackptr]))
            /\ cursor' = fmove(pos, 1)
            /\ UNCHANGED <<stack, stackptr, depth, current_depth, fm, pc, inpos, scan_start>>
      [] c = COMMA ->
            /\ stack' = [stack EXCEPT ![stackptr] = input_byte]
            /\ inpos' = (IF inpos < Len(stdin) THEN inpos + 1 ELSE inpos)
            /\ cursor' = fmove(pos, 1)
            /\ UNCHANGED <<stackptr, depth, current_depth, fm, pc, out, scan_start>>
      [] c = LBRACKET ->
            \* jump_forward, up to its loop
            /\ depth' = UIntInc(depth)
            /\ cursor' = fmove(pos, 1)
            /\ IF stack[stackptr] # 0
               THEN UNCHANGED <<current_depth, pc, scan_start>>
               ELSE /\ current_depth' = UIntInc(depth)
                    /\ pc' = "jump_forward"
                    /\ scan_start' = pos
            /\ UNCHANGED <<stack, stackptr, fm, out, inpos>>
      [] c = RBRACKET ->
            \* jump_backward, up to its loop
            /\ IF stack[stackptr] = 0
               THEN /\ depth' = UIntDec(depth)
                    /\ cursor' = fmove(pos, 1)
                    /\ UNCHANGED <<current_depth, pc, scan_start>>
               ELSE /\ cursor' = fmoveback(pos, 1)
                    /\ current_depth' = depth
                    /\ pc' = "jump_backward"
                    /\ scan_start' = pos
                    /\ UNCHANGED depth
            /\ UNCHANGED <<stack, stackptr, fm, out, inpos>>
      [] c = LPAREN ->
            /\ fm' = [c1 |-> LPAREN, c2 |-> RPAREN, direction |-> 1,
                      depth |-> 0, ret |-> "interpret_file"]
            /\ pc' = "ffindc_matching"
            /\ scan_start' = pos
            /\ cursor' = pos
            /\ UNCHANGED <<stack, stackptr, depth, current_depth, out, inpos>>
      [] c = HASH ->
            /\ cursor' = fmove(ffindc(src, pos, NL), 1)
            /\ UNCHANGED <<stack, stackptr, depth, current_depth, fm, pc, out, inpos, scan_start>>
      [] c \in {NL, NUL, RPAREN, SPACE, CR, TAB} ->
            /\ cursor' = fmove(pos, 1)
            /\ UNCHANGED <<stack, stackptr, depth, current_depth, fm, pc, out, inpos, scan_start>>

\* The switch on the command c read at position pos, and the fmove after it.
Command(c, pos) ==
    CASE c = GT ->
            /\ stackptr' = stackptr + 1
            /\ cursor' = fmove(pos, 1)
            /\ UNCHANGED <<stack, depth, current_depth, fm, pc, out, inpos, scan_start>>
      [] c = LT ->
            /\ stackptr' = stackptr - 1
            /\ cursor' = fmove(pos, 1)
            /\ UNCHANGED <<stack, depth, current_depth, fm, pc, out, inpos, scan_start>>
      [] c = PLUS ->
            /\ stack' = [stack EXCEPT ![stackptr] = IncChar(@)]
            /\ cursor' = fmove(pos, 1)
            /\ UNCHANGED <<stackptr, depth, current_depth, fm, pc, out, inpos, scan_start>>
      [] c = MINUS ->
            /\ stack' = [stack EXCEPT ![stackptr] = DecChar(@)]
            /\ cursor' = fmove(pos, 1)
            /\ UNCHANGED <<stackptr, depth, current_depth, fm, pc, out, inpos, scan_start>>
      [] c = DOT ->
            /\ Len(out) < MaxOut
            /\ out' = Append(out, ToByte(stack[stackptr]))
            /\ cursor' = fmove(pos, 1)
            /\ UNCHANGED <<stack, stackptr, depth, current_depth, fm, pc, inpos, scan_start>>
      [] c = COMMA ->
            /\ stack' = [stack EXCEPT ![stackptr] = input_byte]
            /\ inpos' = (IF inpos < Len(stdin) THEN inpos + 1 ELSE inpos)
            /\ cursor' = fmove(pos, 1)
            /\ UNCHANGED <<stackptr, depth, current_depth, fm, pc, out, scan_start>>
      [] c = LBRACKET ->
            \* jump_forward, up to its loop
            /\ depth' = UIntInc(depth)
            /\ cursor' = fmove(pos, 1)
            /\ IF stack[stackptr] # 0
               THEN UNCHANGED <<current_depth, pc, scan_start>>
               ELSE /\ current_depth' = UIntInc(depth)
                    /\ pc' = "jump_forward"
                    /\ scan_start' = pos
            /\ UNCHANGED <<stack, stackptr, fm, out, inpos>>
      [] c = RBRACKET ->
            \* jump_backward, up to its loop
            /\ IF stack[stackptr] = 0
               THEN /\ depth' = UIntDec(depth)
                    /\ cursor' = fmove(pos, 1)
                    /\ UNCHANGED <<current_depth, pc, scan_start>>
               ELSE /\ cursor' = fmoveback(pos, 1)
                    /\ current_depth' = depth
                    /\ pc' = "jump_backward"
                    /\ scan_start' = pos
                    /\ UNCHANGED depth
            /\ UNCHANGED <<stack, stackptr, fm, out, inpos>>
      [] c = LPAREN ->
            /\ fm' = [c1 |-> LPAREN, c2 |-> RPAREN, direction |-> 1,
                      depth |-> 0, ret |-> "interpret_file"]
            /\ pc' = "ffindc_matching"
            /\ scan_start' = pos
            /\ cursor' = pos
            /\ UNCHANGED <<stack, stackptr, depth, current_depth, out, inpos>>
      [] c = HASH ->
            /\ cursor' = fmove(ffindc(src, pos, NL), 1)
            /\ UNCHANGED <<stack, stackptr, depth, current_depth, fm, pc, out, inpos, scan_start>>
      [] c \in {NL, NUL, RPAREN, SPACE, CR, TAB} ->
            /\ cursor' = fmove(pos, 1)
            /\ UNCHANGED <<stack, stackptr, depth, current_depth, fm, pc, out, inpos, scan_start>>

KnownChars == {GT, LT, PLUS, MINUS, DOT, COMMA, LBRACKET, RBRACKET, LPAREN,
               RPAREN, HASH, NL, NUL, SPACE, CR, TAB}

\* interpret_file with its upper bounds test off by one: a position one
\* past the last cell goes through to the switch.
interpret_file_off_by_one ==
    /\ pc = "interpret_file"
    /\ depth \in -MaxDepth..MaxDepth
    /\ LET r == freadc(src, cursor)
           c == ToChar(r.c)
       IN  IF c = EOF THEN Return(ERR_OK, r.pos, stackptr)
           ELSE IF stackptr < 0 THEN Return(ERR_BOUNDS, r.pos, 0)
           ELSE IF stackptr > STACK_SIZE THEN Return(ERR_BOUNDS, r.pos, STACK_SIZE - 1)
           ELSE IF c \notin KnownChars THEN Return(ERR_UNKNOWN_CHAR, r.pos, stackptr)
           ELSE /\ Command(c, r.pos)
                /\ UNCHANGED <<src, stdin, err, where_err, first>>

interpret_file ==
    /\ pc = "interpret_file"
    /\ depth \in -MaxDepth..MaxDepth
    /\ LET r == freadc(src, cursor)
           c == ToChar(r.c)
       IN  IF c = EOF THEN Return(ERR_OK, r.pos, stackptr)
           ELSE IF stackptr < 0 THEN Return(ERR_BOUNDS, r.pos, 0)
           ELSE IF stackptr >= STACK_SIZE THEN Return(ERR_BOUNDS, r.pos, STACK_SIZE - 1)
           ELSE IF c \notin KnownChars THEN Return(ERR_UNKNOWN_CHAR, r.pos, stackptr)
           ELSE /\ Command(c, r.pos)
                /\ UNCHANGED <<src, stdin, err, where_err, first>>

(***************************************************************************)
(* The scans, one loop iteration each.                                     *)
(***************************************************************************)
\* The loop of jump_forward with the matching ] told by the absolute value
\* 1 of its counter, not by the depth the counter started from.
jump_forward_absolute ==
    /\ pc = "jump_forward"
    /\ LET r == freadc(src, cursor)
           c == ToChar(r.c)
           leave == /\ cursor' = fmove(r.pos, 1)
                    /\ pc' = "interpret_file"
                    /\ current_depth' = 0
                    /\ scan_start' = -1
                    /\ UNCHANGED fm
       IN  IF c = EOF THEN leave
           ELSE IF c = LBRACKET
           THEN /\ current_depth - depth < MaxNest
                /\ current_depth' = UIntInc(current_depth)
                /\ cursor' = fmove(r.pos, 1)
                /\ UNCHANGED <<pc, fm, scan_start>>
           ELSE IF c = RBRACKET
           THEN IF current_depth = 1 THEN leave
                ELSE /\ current_depth' = UIntDec(current_depth)
                     /\ cursor' = fmove(r.pos, 1)
                     /\ UNCHANGED <<pc, fm, scan_start>>
           ELSE IF c = LPAREN
           THEN /\ fm' = [c1 |-> LPAREN, c2 |-> RPAREN, direction |-> 1,
                          depth |-> 0, ret |-> "jump_forward"]
                /\ pc' = "ffindc_matching"
                /\ cursor' = r.pos
                /\ UNCHANGED <<current_depth, scan_start>>
           ELSE /\ cursor' = fmove(r.pos, 1)
                /\ UNCHANGED <<pc, fm, current_depth, scan_start>>
    /\ UNCHANGED <<src, stdin, inpos, stack, stackptr, depth, err, where_err,
                   out, first>>

\* The loop of jump_forward, and the fmove of interpret_file after it.
jump_forward ==
    /\ pc = "jump_forward"
    /\ LET r == freadc(src, cursor)
           c == ToChar(r.c)
           leave == /\ cursor' = fmove(r.pos, 1)
                    /\ pc' = "interpret_file"
                    /\ current_depth' = 0
                    /\ scan_start' = -1
                    /\ UNCHANGED fm
       IN  IF c = EOF THEN leave
           ELSE IF c = LBRACKET
           THEN /\ current_depth - depth < MaxNest
                /\ current_depth' = UIntInc(current_depth)
                /\ cursor' = fmove(r.pos, 1)
                /\ UNCHANGED <<pc, fm, scan_start>>
           ELSE IF c = RBRACKET
           THEN IF current_depth = depth THEN leave
                ELSE /\ current_depth' = UIntDec(current_depth)
                     /\ cursor' = fmove(r.pos, 1)
                     /\ UNCHANGED <<pc, fm, scan_start>>
           ELSE IF c = LPAREN
           THEN /\ fm' = [c1 |-> LPAREN, c2 |-> RPAREN, direction |-> 1,
                          depth |-> 0, ret |-> "jump_forward"]
                /\ pc' = "ffindc_matching"
                /\ cursor' = r.pos
                /\ UNCHANGED <<current_depth, scan_start>>
           ELSE /\ cursor' = fmove(r.pos, 1)
                /\ UNCHANGED <<pc, fm, current_depth, scan_start>>
    /\ UNCHANGED <<src, stdin, inpos, stack, stackptr, depth, err, where_err,
                   out, first>>

\* The loop of jump_backward, its last two statements, and the fmove of
\* interpret_file after it.
jump_backward ==
    /\ pc = "jump_backward"
    /\ depth \in -MaxDepth..MaxDepth
    /\ LET r == freadc(src, cursor)
           c == ToChar(r.c)
       IN  IF c = RBRACKET
           THEN /\ current_depth - depth < MaxNest
                /\ current_depth' = UIntInc(current_depth)
                /\ cursor' = fmoveback(r.pos, 1)
                /\ UNCHANGED <<pc, fm, depth, scan_start>>
           ELSE IF c = LBRACKET
           THEN IF current_depth = depth
                THEN /\ depth' = UIntDec(depth)
                     /\ cursor' = fmove(fmoveback(r.pos, 1), 1)
                     /\ pc' = "interpret_file"
                     /\ current_depth' = 0
                     /\ scan_start' = -1
                     /\ UNCHANGED fm
                ELSE /\ current_depth' = UIntDec(current_depth)
                     /\ cursor' = fmoveback(r.pos, 1)
                     /\ UNCHANGED <<pc, fm, depth, scan_start>>
           ELSE IF c = RPAREN
           THEN /\ fm' = [c1 |-> RPAREN, c2 |-> LPAREN, direction |-> -1,
                          depth |-> 0, ret |-> "jump_backward"]
                /\ pc' = "ffindc_matching"
                /\ cursor' = r.pos
                /\ UNCHANGED <<current_depth, depth, scan_start>>
           ELSE /\ cursor' = fmoveback(r.pos, 1)
                /\ UNCHANGED <<pc, fm, current_depth, depth, scan_start>>
    /\ UNCHANGED <<src, stdin, inpos, stack, stackptr, err, where_err, out, first>>

\* ffindc_matching without its nesting count: the scan ends on the first
\* c2 it reads.
ffindc_matching_first_close ==
    /\ pc = "ffindc_matching"
    /\ LET r == freadc(src, cursor)
           v == r.c
           leave == /\ fm' = NoCall
                    /\ pc' = fm.ret
                    /\ cursor' = (IF fm.ret = "jump_backward"
                                  THEN fmoveback(r.pos, 1) ELSE fmove(r.pos, 1))
                    /\ scan_start' = (IF fm.ret = "interpret_file" THEN -1 ELSE scan_start)
       IN  IF v = EOF \/ v = fm.c2 THEN leave
           ELSE /\ cursor' = fmove(r.pos, fm.direction)
                /\ UNCHANGED <<pc, fm, scan_start>>
    /\ UNCHANGED <<src, stdin, inpos, stack, stackptr, depth, current_depth, err,
                   where_err, out, first>>

\* The loop of ffindc_matching, and on its return the statement that
\* follows the call: the fmove of interpret_file or of jump_forward, or the
\* fmoveback of jump_backward.
ffindc_matching ==
    /\ pc = "ffindc_matching"
    /\ LET r == freadc(src, cursor)
           v == r.c
           leave == /\ fm' = NoCall
                    /\ pc' = fm.ret
                    /\ cursor' = (IF fm.ret = "jump_backward"
                                  THEN fmoveback(r.pos, 1) ELSE fmove(r.pos, 1))
                    /\ scan_start' = (IF fm.ret = "interpret_file" THEN -1 ELSE scan_start)
       IN  IF v = EOF THEN leave
           ELSE IF v = fm.c1
           THEN /\ fm.depth < MaxNest
                /\ fm' = [fm EXCEPT !.depth = @ + 1]
                /\ cursor' = fmove(r.pos, fm.direction)
                /\ UNCHANGED <<pc, scan_start>>
           ELSE IF v = fm.c2
           THEN IF fm.depth = 1 THEN leave
                ELSE /\ fm' = [fm EXCEPT !.depth = @ - 1]
                     /\ cursor' = fmove(r.pos, fm.direction)
                     /\ UNCHANGED <<pc, scan_start>>
           ELSE /\ cursor' = fmove(r.pos, fm.direction)
                /\ UNCHANGED <<pc, fm, scan_start>>
    /\ UNCHANGED <<src, stdin, inpos, stack, stackptr, depth, current_depth, err,
                   where_err, out, first>>

\* trace is a history of the offsets dispatched, kept only in the runs that
\* compare two seeds of depth (SpecDepth below); here it stays empty.
Next ==
    \/ readfile /\ UNCHANGED trace
    \/ interpret_file /\ UNCHANGED trace
    \/ jump_forward /\ UNCHANGED trace
    \/ jump_backward /\ UNCHANGED trace
    \/ ffindc_matching /\ UNCHANGED trace

Spec == Init /\ [][Next]_vars


(***************************************************************************)
(* A second run, of the program with its comments deleted, after the       *)
(* first has ended: the two results are then side by side.                 *)
(***************************************************************************)
\* The lexical structure of a source read forward: "code", "paren" for the
\* bytes of a nestable ( ... ) span (both ends included), "hash" for the
\* bytes of a # ... newline span (both ends included).
RECURSIVE Lex(_, _, _, _, _)
Lex(s, i, pd, h, acc) ==
    IF i > Len(s) THEN [kinds |-> acc, pd |-> pd, hash |-> h]
    ELSE IF pd > 0
    THEN Lex(s, i + 1,
             IF s[i] = LPAREN THEN pd + 1 ELSE IF s[i] = RPAREN THEN pd - 1 ELSE pd,
             FALSE, Append(acc, "paren"))
    ELSE IF h THEN Lex(s, i + 1, 0, s[i] # NL, Append(acc, "hash"))
    ELSE IF s[i] = LPAREN THEN Lex(s, i + 1, 1, FALSE, Append(acc, "paren"))
    ELSE IF s[i] = HASH THEN Lex(s, i + 1, 0, TRUE, Append(acc, "hash"))
    ELSE Lex(s, i + 1, 0, FALSE, Append(acc, "code"))

Kinds(s) == Lex(s, 1, 0, FALSE, <<>>).kinds

\* Every ( ... ) span is closed, every # span reaches its newline, and no
\* ) stands outside a span.
CommentsBalanced(s) ==
    LET l == Lex(s, 1, 0, FALSE, <<>>) IN
    /\ l.pd = 0
    /\ ~l.hash
    /\ \A i \in 1..Len(s) : l.kinds[i] = "code" => s[i] # RPAREN

RECURSIVE Keep(_, _, _, _)
Keep(s, k, drop, i) ==
    IF i > Len(s) THEN <<>>
    ELSE (IF k[i] \in drop THEN <<>> ELSE <<s[i]>>) \o Keep(s, k, drop, i + 1)

\* The source with every comment span deleted.
StripComments(s) == Keep(s, Kinds(s), {"paren", "hash"}, 1)

\* The source with every # ... newline span deleted.
StripHash(s) == Keep(s, Kinds(s), {"hash"}, 1)

Restart ==
    /\ pc = "exit"
    /\ first = <<>>
    /\ first' = <<[src |-> src, stack |-> stack, stackptr |-> stackptr,
                   err |-> err, out |-> out]>>
    /\ src' = StripComments(src)
    /\ inpos' = 0
    /\ cursor' = 0
    /\ stack' = [i \in 0..(STACK_SIZE - 1) |-> 0]
    /\ stackptr' = 0
    /\ depth' = 0
    /\ current_depth' = 0
    /\ fm' = NoCall
    /\ pc' = "readfile"
    /\ err' = ERR_OK
    /\ where_err' = 0
    /\ out' = <<>>
    /\ scan_start' = -1
    /\ UNCHANGED <<stdin, trace>>

NextPair == Next \/ Restart

SpecPair == Init /\ [][NextPair]_vars

(***************************************************************************)
(* Reference notions the properties are stated with.                       *)
(***************************************************************************)
Count(s, b) == Cardinality({i \in 1..Len(s) : s[i] = b})

\* open and close bytes of s, comments included, are properly nested.
RawNested(s, open, close) ==
    /\ Count(s, open) = Count(s, close)
    /\ \A j \in 1..Len(s) :
          Count(SubSeq(s, 1, j), open) >= Count(SubSeq(s, 1, j), close)

IsCode(s, i, b) == s[i] = b /\ Kinds(s)[i] = "code"

\* Loop brackets (those outside comments) opened minus closed in i..j.
Bal(s, i, j) ==
    Cardinality({k \in i..j : IsCode(s, k, LBRACKET)})
        - Cardinality({k \in i..j : IsCode(s, k, RBRACKET)})

\* The loop brackets of s are properly nested.
CodeNested(s) ==
    /\ Bal(s, 1, Len(s)) = 0
    /\ \A j \in 1..Len(s) : Bal(s, 1, j) >= 0

\* Index (from 1) of the ] that closes the loop opened at index i; 0 if none.
MatchClose(s, i) ==
    LET C == {j \in (i + 1)..Len(s) : IsCode(s, j, RBRACKET) /\ Bal(s, i, j) = 0}
    IN  IF C = {} THEN 0 ELSE CHOOSE j \in C : \A k \in C : j <= k

\* Index (from 1) of the [ that opens the loop closed at index j; 0 if none.
MatchOpen(s, j) ==
    LET O == {i \in 1..(j - 1) : IsCode(s, i, LBRACKET) /\ Bal(s, i, j) = 0}
    IN  IF O = {} THEN 0 ELSE CHOOSE i \in O : \A k \in O : i >= k

\* The validator let the program through.
Accepted == pc # "readfile" /\ ~(pc = "exit" /\ err = ERR_MATCHING_BRACKET)

\* The dispatcher is about to run the switch on byte b: the byte is the
\* one under the cursor and the position is inside the tape.
AtCommand(b) ==
    /\ pc = "interpret_file"
    /\ cursor < Len(src)
    /\ src[cursor + 1] = b
    /\ stackptr \in 0..(STACK_SIZE - 1)

Scanning == pc \in {"jump_forward", "jump_backward", "ffindc_matching"}


(***************************************************************************)
(* Properties.                                                             *)
(***************************************************************************)
\* Every [ and ] of s stands outside comments, and they are properly nested.
BracketsOnlyInCode(s) ==
    /\ \A i \in 1..Len(s) : s[i] \in {LBRACKET, RBRACKET} => Kinds(s)[i] = "code"
    /\ CodeNested(s)

\* C1: in a program whose [ and ] are properly nested and stand outside
\* comments, a [ dispatched on a zero cell runs no instruction of the body
\* and execution goes on with the byte after the matching ]; a [ on a
\* nonzero cell enters the body; a ] on a nonzero cell goes back to the
\* matching [, and a ] on a zero cell leaves the loop.
C1_LoopSemantics ==
    [][BracketsOnlyInCode(src) =>
        /\ (pc = "jump_forward" /\ pc' = "interpret_file")
              => cursor' = MatchClose(src, scan_start + 1)
        /\ (pc = "jump_backward" /\ pc' = "interpret_file")
              => cursor' = MatchOpen(src, scan_start + 1) - 1
        /\ (AtCommand(LBRACKET) /\ stack[stackptr] # 0)
              => (pc' = "interpret_file" /\ cursor' = cursor + 1)
        /\ (AtCommand(RBRACKET) /\ stack[stackptr] = 0)
              => (pc' = "interpret_file" /\ cursor' = cursor + 1)
        /\ Scanning => (stack' = stack /\ stackptr' = stackptr /\ out' = out)
      ]_vars

\* C2: a move off either end of the tape ends the run with ERR_BOUNDS at
\* the next step of the dispatcher, which runs no further instruction.
C2_MoveOffTapeFaults ==
    [][(pc = "interpret_file" /\ stackptr \notin 0..(STACK_SIZE - 1))
          => /\ pc' = "exit"
             /\ err' = ERR_BOUNDS
             /\ stack' = stack
             /\ out' = out
             /\ depth' = depth
      ]_vars

\* C3: a program the validator accepts has properly nested [ ] and
\* properly nested ( ).
C3_AcceptedIsBalanced ==
    Accepted => (RawNested(src, LBRACKET, RBRACKET) /\ RawNested(src, LPAREN, RPAREN))

\* C4: a program whose comment delimiters balance ends with the tape, the
\* position and the error code of the program without its comment spans.
C4_CommentsAreInert ==
    (Len(first) = 1 /\ pc = "exit" /\ CommentsBalanced(first[1].src))
        => /\ stack = first[1].stack
           /\ stackptr = first[1].stackptr
           /\ err = first[1].err

\* C5: a program with unequal numbers of [ and ], or of ( and ), ends in
\* validation with ERR_MATCHING_BRACKET, the tape, the position, depth and
\* the output untouched.
C5_UnbalancedAbortsEarly ==
    (pc # "readfile"
       /\ (Count(src, LBRACKET) # Count(src, RBRACKET)
             \/ Count(src, LPAREN) # Count(src, RPAREN)))
        => /\ pc = "exit"
           /\ err = ERR_MATCHING_BRACKET
           /\ \A i \in 0..(STACK_SIZE - 1) : stack[i] = 0
           /\ stackptr = 0
           /\ depth = 0
           /\ out = <<>>

\* Number of commands of an arithmetic program that have run.
Executed == IF pc = "exit" THEN Len(src) ELSE cursor

\* Tape position after the first n commands of an arithmetic program.
PosAfter(s, n) ==
    Cardinality({j \in 1..n : s[j] = GT}) - Cardinality({j \in 1..n : s[j] = LT})

\* Among the first n commands, the number of b run at cell i.
RunAt(s, n, b, i) ==
    Cardinality({j \in 1..n : s[j] = b /\ PosAfter(s, j - 1) = i})

\* The first n commands keep the position inside the tape.
StaysInside(s, n) == \A j \in 0..n : PosAfter(s, j) \in 0..(STACK_SIZE - 1)

ArithRun ==
    /\ Range(src) \subseteq ArithAlphabet
    /\ pc \in {"interpret_file", "exit"}
    /\ StaysInside(src, Executed)

C7_UnknownByteFaults ==
    [][(pc = "interpret_file" /\ cursor < Len(src)
          /\ src[cursor + 1] \notin KnownChars
          /\ stackptr \in 0..(STACK_SIZE - 1))
          => /\ pc' = "exit"
             /\ err' = ERR_UNKNOWN_CHAR
             /\ stack' = stack
             /\ stackptr' = stackptr
             /\ out' = out
      ]_vars

\* The source is balanced once its # ... newline spans are removed.
BalancedWithoutHash(s) ==
    /\ ~Lex(s, 1, 0, FALSE, <<>>).hash
    /\ RawNested(StripHash(s), LBRACKET, RBRACKET)
    /\ RawNested(StripHash(s), LPAREN, RPAREN)

\* C8 as stated: a program that is balanced once its # ... newline spans
\* are removed passes validation.
C8_HashCommentsUnchecked == (pc # "readfile" /\ BalancedWithoutHash(src)) => Accepted

\* The bytes the validator reads: the source up to its first byte 255.
Scanned(s) ==
    LET F == {i \in 1..Len(s) : s[i] = 255} IN
    IF F = {} THEN s ELSE SubSeq(s, 1, (CHOOSE i \in F : \A k \in F : i <= k) - 1)

\* C8 amended: the validator counts the brackets of # comments too; a
\* program passes validation exactly when, among the bytes the validator
\* reads, [ and ] are equal in number and ( and ) are equal in number.
C8_ValidatorCountsEveryByte ==
    pc # "readfile" =>
        (Accepted <=>
            /\ Count(Scanned(src), LBRACKET) = Count(Scanned(src), RBRACKET)
            /\ Count(Scanned(src), LPAREN) = Count(Scanned(src), RPAREN))

\* C8 witness: a program rejected for the unmatched bracket of a # comment
\* alone.
C8_Witness ==
    /\ pc = "exit"
    /\ err = ERR_MATCHING_BRACKET
    /\ 255 \notin Range(src)
    /\ BalancedWithoutHash(src)
    /\ \E i \in 1..Len(src) :
          Kinds(src)[i] = "hash" /\ src[i] \in {LBRACKET, RBRACKET, LPAREN, RPAREN}

\* Loop brackets properly nested (read with or without the comments),
\* ( ) properly nested, and no bracket or parenthesis in a # comment.
WellFormed(s) ==
    /\ CodeNested(s)
    /\ RawNested(s, LBRACKET, RBRACKET)
    /\ RawNested(s, LPAREN, RPAREN)
    /\ CommentsBalanced(s)
    /\ \A i \in 1..Len(s) :
          Kinds(s)[i] = "hash" => s[i] \notin {LBRACKET, RBRACKET, LPAREN, RPAREN}

\* C9: in a well-formed program, the backward scan of a ] on a nonzero
\* cell ends with the cursor on the matching [, which is dispatched next
\* and brings depth back to the value it had in the body.
C9_BackwardJumpTarget ==
    [][(WellFormed(src) /\ pc = "jump_backward" /\ pc' = "interpret_file")
          => /\ MatchOpen(src, scan_start + 1) # 0
             /\ cursor' = MatchOpen(src, scan_start + 1) - 1
             /\ UIntInc(depth') = depth
      ]_vars

\* C10: in a well-formed program, the forward scan of a [ on a zero cell
\* stops with the cursor on the matching ], and the next byte dispatched is
\* the one right after it.
C10_ForwardSkipTarget ==
    [][(WellFormed(src) /\ pc = "jump_forward" /\ pc' = "interpret_file")
          => /\ MatchClose(src, scan_start + 1) # 0
             /\ cursor = MatchClose(src, scan_start + 1) - 1
             /\ cursor' = cursor + 1
      ]_vars

\* A backward scan stands at offset 0 on a byte that does not end it: its
\* move back fails, and every later iteration reads offset 0 again.
ScanStuck ==
    LET r == freadc(src, cursor) IN
    /\ fmoveback(r.pos, 1) = r.pos
    /\ \/ /\ pc = "jump_backward"
          /\ ToChar(r.c) \notin {LBRACKET, RPAREN}
       \/ /\ pc = "ffindc_matching"
          /\ fm.direction = -1
          /\ r.c \notin {EOF, fm.c2}

\* C11: in a program the validator accepts every scan ends: no scan is
\* ever left reading the same offset again and again.
C11_EveryScanTerminates == Accepted => ~ScanStuck

\* Number of loops that enclose offset n of s: the loop brackets opened and
\* not yet closed among the n bytes before it.
Enclosing(s, n) == Bal(s, 1, IF n < Len(s) THEN n ELSE Len(s))

\* C12: in a program whose [ and ] are properly nested and stand outside
\* comments, each time the dispatcher is about to read an instruction
\* depth is the number of loops that enclose the cursor, after a skipped
\* loop too, and depth is 0 when the run ends with ERR_OK.
C12_DepthCountsOpenLoops ==
    BracketsOnlyInCode(src) =>
        /\ pc = "interpret_file" => depth = Enclosing(src, cursor)
        /\ (pc = "exit" /\ err = ERR_OK) => depth = 0

\* C13: in a program the validator accepts depth never goes below zero:
\* the unsigned counter never wraps to its maximum, held here as -1.
C13_DepthNeverNegative == Accepted => depth >= 0

\* Parentheses of s opened minus closed in i..j, every byte counted.
ParenBal(s, i, j) ==
    Cardinality({k \in i..j : s[k] = LPAREN}) - Cardinality({k \in i..j : s[k] = RPAREN})

\* Index (from 1) of the ) that closes the ( at index i; 0 if none.
MatchParen(s, i) ==
    LET C == {j \in (i + 1)..Len(s) : s[j] = RPAREN /\ ParenBal(s, i, j) = 0}
    IN  IF C = {} THEN 0 ELSE CHOOSE j \in C : \A k \in C : j <= k

\* The scan of a ( that the dispatcher read is running.
SkippingComment == pc = "ffindc_matching" /\ fm.ret = "interpret_file"

\* C14: in a source whose ( and ) are properly nested, the scan started by
\* a ( that the dispatcher read stops with the cursor on the ) that matches
\* it under nesting, the next byte dispatched is the one right after that
\* ), and neither the dispatch of the ( nor the scan changes the tape, the
\* position or depth.
C14_CommentSkipTarget ==
    [][RawNested(src, LPAREN, RPAREN) =>
        /\ AtCommand(LPAREN) => (pc' = "ffindc_matching" /\ cursor' = cursor)
        /\ (AtCommand(LPAREN) \/ SkippingComment)
              => (stack' = stack /\ stackptr' = stackptr /\ depth' = depth)
        /\ (SkippingComment /\ pc' = "interpret_file")
              => /\ MatchParen(src, scan_start + 1) # 0
                 /\ cursor = MatchParen(src, scan_start + 1) - 1
                 /\ cursor' = cursor + 1
      ]_vars

\* C14 witness: the scan of the ( at offset 0 went over a nested ( ) pair
\* and left the cursor right after the outer ), on a + not yet run.
C14_Witness ==
    /\ RawNested(src, LPAREN, RPAREN)
    /\ Len(src) >= 5
    /\ src[1] = LPAREN /\ src[2] = LPAREN /\ src[3] = RPAREN
    /\ pc = "interpret_file"
    /\ cursor = MatchParen(src, 1)
    /\ cursor > 3
    /\ src[cursor + 1] = PLUS
    /\ stack[0] = 0

\* C15: when validation fails, the offset reported with the fault is the
\* offset at which the failing scan ended, the number of bytes it read
\* (the length of a source without byte 255), whichever pass fails; the
\* cursor is at offset 0 after validation whatever the outcome.
C15_ValidationFaultOffset ==
    [][pc = "readfile" =>
        /\ cursor' = 0
        /\ err' = ERR_MATCHING_BRACKET => where_err' = Len(Scanned(src))
      ]_vars

\* The position is the index of a cell of the tape.
InsideTape == stackptr \in 0..(STACK_SIZE - 1)

\* C16: no cell is read or written while the position is outside the
\* tape: every step that runs the switch on an instruction, and every step
\* of a scan started by the zero test of a [ or a ], is taken with the
\* position inside the tape.
C16_NoAccessOffTape ==
    [][((pc = "interpret_file" /\ pc' # "exit") \/ Scanning) => InsideTape]_vars

\* C16 witness: the position left the tape, the next instruction read was
\* a + and the run ended with ERR_BOUNDS before it touched a cell.
C16_Witness ==
    /\ pc = "exit"
    /\ err = ERR_BOUNDS
    /\ cursor < Len(src)
    /\ src[cursor + 1] = PLUS
    /\ \A i \in 0..(STACK_SIZE - 1) : stack[i] = 0

\* The bytes the switch runs that are neither + - , nor > <.
FrameBytes == {DOT, LBRACKET, RBRACKET, LPAREN, RPAREN, HASH, NL, NUL, SPACE, CR, TAB}

\* C17: + - and , change only the cell at the position and leave the
\* position and every other cell as they were; > and < leave every cell as
\* it was; every other byte the switch runs, and every step of a scan,
\* leaves all cells and the position as they were.
C17_CommandFrame ==
    [][/\ (AtCommand(PLUS) \/ AtCommand(MINUS) \/ AtCommand(COMMA))
             => /\ stackptr' = stackptr
                /\ \A j \in 0..(STACK_SIZE - 1) : j # stackptr => stack'[j] = stack[j]
       /\ (AtCommand(GT) \/ AtCommand(LT)) => stack' = stack
       /\ ((\E b \in FrameBytes : AtCommand(b)) \/ Scanning)
             => (stack' = stack /\ stackptr' = stackptr)
      ]_vars

\* C17 witness: a run ended at cell 1 after a + at cell 0 and a - at cell
\* 1: each changed its own cell and left the other.
C17_Witness ==
    /\ pc = "exit"
    /\ err = ERR_OK
    /\ stackptr = 1
    /\ stack[0] = 1
    /\ ToByte(stack[1]) = 255
    /\ stack[2] = 0

(***************************************************************************)
(* A second run of the same program on the same input with another seed of *)
(* depth, after the first has ended or has dispatched MaxTrace offsets;    *)
(* both runs record the offsets they dispatch.                             *)
(***************************************************************************)
\* This step of interpret_file reaches the switch.
Dispatching ==
    /\ pc = "interpret_file"
    /\ ToChar(freadc(src, cursor).c) # EOF
    /\ InsideTape

\* The run is over, or its record of dispatches is full.
Halted == pc = "exit" \/ (pc = "interpret_file" /\ Len(trace) = MaxTrace)

\* Initial values of depth of the second run; the first starts from 0.
Seeds == {UIntDec(0), 1, 2}

RestartDepth ==
    /\ Halted
    /\ first = <<>>
    /\ \E d \in Seeds :
          /\ depth' = d
          /\ first' = <<[seed |-> d, pc |-> pc, cursor |-> cursor, stack |-> stack,
                         stackptr |-> stackptr, err |-> err, out |-> out,
                         trace |-> trace]>>
    /\ inpos' = 0
    /\ cursor' = 0
    /\ stack' = [i \in 0..(STACK_SIZE - 1) |-> 0]
    /\ stackptr' = 0
    /\ current_depth' = 0
    /\ fm' = NoCall
    /\ pc' = "readfile"
    /\ err' = ERR_OK
    /\ where_err' = 0
    /\ out' = <<>>
    /\ scan_start' = -1
    /\ trace' = <<>>
    /\ UNCHANGED <<src, stdin>>

NextDepth ==
    \/ readfile /\ UNCHANGED trace
    \/ /\ Len(trace) < MaxTrace
       /\ interpret_file
       /\ trace' = (IF Dispatching THEN Append(trace, cursor) ELSE trace)
    \/ jump_forward /\ UNCHANGED trace
    \/ jump_backward /\ UNCHANGED trace
    \/ ffindc_matching /\ UNCHANGED trace
    \/ RestartDepth

SpecDepth == Init /\ [][NextDepth]_vars

\* s is an initial part of t.
IsPrefix(s, t) == Len(s) <= Len(t) /\ SubSeq(t, 1, Len(s)) = s

\* C18: the run of a program from another initial value of depth
\* dispatches the same offsets in the same order as the run from 0 on the
\* same input, writes the same output, and stops in the same place with
\* the same tape, position and error code.
C18_DepthSeedIrrelevant ==
    Len(first) = 1 =>
        /\ IsPrefix(trace, first[1].trace)
        /\ IsPrefix(out, first[1].out)
        /\ Halted =>
              /\ trace = first[1].trace
              /\ out = first[1].out
              /\ stack = first[1].stack
              /\ stackptr = first[1].stackptr
              /\ err = first[1].err
              /\ pc = first[1].pc
              /\ cursor = first[1].cursor

\* C18 witness: a second run seeded with the largest unsigned value has
\* stopped after a [ that skipped its loop and a ] that jumped back.
C18_Witness ==
    /\ Len(first) = 1
    /\ first[1].seed = UIntDec(0)
    /\ Halted
    /\ \E i \in 1..(Len(trace) - 1) :
          src[trace[i] + 1] = LBRACKET /\ trace[i + 1] > trace[i] + 1
    /\ \E i \in 1..(Len(trace) - 1) :
          src[trace[i] + 1] = RBRACKET /\ trace[i + 1] < trace[i]

\* C19: in every state of the cursor, offset 0 and the end of the source
\* included, freadc returns the byte under the cursor, or EOF at the end,
\* and leaves the cursor where it was.
C19_PeekDoesNotConsume ==
    LET r == freadc(src, cursor) IN
    /\ r.c = (IF cursor < Len(src) THEN src[cursor + 1] ELSE EOF)
    /\ r.pos = cursor

====
